---- MODULE Spec2Model ----
(***************************************************************************)
(* Model of ioctx: the IOContext protocol and its three implementations,   *)
(* RealIO, FakeIO and TracingIO (src/ioctx/backends.py).                   *)
(*                                                                         *)
(* Spec     : a caller drives a TracingIO wrapping a FakeIO and, side by   *)
(*            side, a second FakeIO built from the same fixtures.          *)
(* SpecReal : a caller drives a RealIO against a filesystem and the        *)
(*            process-wide logging module.                                 *)
(*                                                                         *)
(* Python values: str is a TLA+ string, bytes a sequence of byte values,   *)
(* a dict a function, None the record None, an object a record of its      *)
(* attributes.  A call's outcome is Ok(value) or Raise(exc, msg).          *)
(***************************************************************************)
EXTENDS Integers, Sequences, FiniteSets, TLC

VARIABLES tracing_ctx, fake_ctx, constructed, calls, os, logging, real_calls

vars == <<tracing_ctx, fake_ctx, constructed, calls, os, logging, real_calls>>

fake_vars == <<tracing_ctx, fake_ctx, constructed, calls>>
real_vars == <<os, logging, real_calls>>

\* Number of calls the caller issues in one run.
MaxCalls == 3

-----------------------------------------------------------------------------
(* Python values *)

None == [type |-> "NoneType"]

EmptyDict == <<>>

Ok(value) == [ok |-> TRUE, value |-> value]

Raise(exc, msg) == [ok |-> FALSE, exc |-> exc, msg |-> msg]

\* x or {}
OrEmptyDict(x) == IF x = None \/ DOMAIN x = {} THEN EmptyDict ELSE x

\* d[k] = v
DictSet(d, k, v) == [q \in DOMAIN d \cup {k} |-> IF q = k THEN v ELSE d[q]]

\* {**a, **b}
DictMerge(a, b) == [q \in DOMAIN a \cup DOMAIN b |-> IF q \in DOMAIN b THEN b[q] ELSE a[q]]

HttpResponse(status_code, text, headers) ==
    [status_code |-> status_code, text |-> text, headers |-> OrEmptyDict(headers)]

CommandResult(return_code, stdout, stderr) ==
    [return_code |-> return_code, stdout |-> stdout, stderr |-> stderr]

\* The payloads handed to http_post: a str or an int, each with its text.
StrData(s) == [type |-> "str", text |-> s]
IntData(s) == [type |-> "int", text |-> s]

\* repr(data)
Repr(data) == IF data.type = "str" THEN "'" \o data.text \o "'" ELSE data.text

\* str(data), as an f-string formats it
Str(data) == data.text

\* " ".join(cmd)
RECURSIVE Join(_)
Join(cmd) ==
    IF Len(cmd) = 0 THEN ""
    ELSE IF Len(cmd) = 1 THEN cmd[1]
    ELSE cmd[1] \o " " \o Join(Tail(cmd))

-----------------------------------------------------------------------------
(* FakeIO *)

FakeIO_init(file_contents, http_responses, command_results) ==
    [file_contents   |-> OrEmptyDict(file_contents),
     http_responses  |-> OrEmptyDict(http_responses),
     command_results |-> OrEmptyDict(command_results),
     written_files   |-> EmptyDict,
     logs            |-> <<>>]

\* Mutant: read_file serves what write_file stored before the fixtures.
FakeIO_read_file_ReadsWrites(self, path) ==
    IF path \in DOMAIN self.written_files
    THEN [self |-> self, out |-> Ok(self.written_files[path])]
    ELSE IF path \notin DOMAIN self.file_contents
    THEN [self |-> self, out |-> Raise("FileNotFoundError", "No fake content for " \o path)]
    ELSE [self |-> self, out |-> Ok(self.file_contents[path])]

FakeIO_read_file(self, path) ==
    IF path \notin DOMAIN self.file_contents
    THEN [self |-> self, out |-> Raise("FileNotFoundError", "No fake content for " \o path)]
    ELSE [self |-> self, out |-> Ok(self.file_contents[path])]

\* Mutant: written_files.setdefault(path, content), the first write kept.
FakeIO_write_file_KeepsFirst(self, path, content) ==
    [self |-> [self EXCEPT !.written_files =
                  IF path \in DOMAIN self.written_files THEN self.written_files
                  ELSE DictSet(self.written_files, path, content)],
     out  |-> Ok(None)]

FakeIO_write_file(self, path, content) ==
    [self |-> [self EXCEPT !.written_files = DictSet(self.written_files, path, content)],
     out  |-> Ok(None)]

FakeIO_http_get(self, url, kwargs) ==
    IF url \notin DOMAIN self.http_responses
    THEN [self |-> self, out |-> Raise("ValueError", "No fake response for GET " \o url)]
    ELSE [self |-> self, out |-> Ok(self.http_responses[url])]

\* Mutant: the bare url is looked up before the composite key.
FakeIO_http_post_UrlFirst(self, url, data, kwargs) ==
    LET key == url \o ":" \o Repr(data) IN
    IF url \notin DOMAIN self.http_responses
    THEN IF key \notin DOMAIN self.http_responses
         THEN [self |-> self,
               out  |-> Raise("ValueError",
                              "No fake response for POST " \o url \o " with " \o Str(data))]
         ELSE [self |-> self, out |-> Ok(self.http_responses[key])]
    ELSE [self |-> self, out |-> Ok(self.http_responses[url])]

FakeIO_http_post(self, url, data, kwargs) ==
    LET key == url \o ":" \o Repr(data) IN
    IF key \notin DOMAIN self.http_responses
    THEN IF url \notin DOMAIN self.http_responses
         THEN [self |-> self,
               out  |-> Raise("ValueError",
                              "No fake response for POST " \o url \o " with " \o Str(data))]
         ELSE [self |-> self, out |-> Ok(self.http_responses[url])]
    ELSE [self |-> self, out |-> Ok(self.http_responses[key])]

FakeIO_execute_command(self, cmd) ==
    LET cmd_str == Join(cmd) IN
    IF cmd_str \notin DOMAIN self.command_results
    THEN [self |-> self, out |-> Raise("ValueError", "No fake result for command: " \o cmd_str)]
    ELSE [self |-> self, out |-> Ok(self.command_results[cmd_str])]

\* Mutant: self.logs = [(level, message)], earlier entries dropped.
FakeIO_log_KeepsLatest(self, level, message) ==
    [self |-> [self EXCEPT !.logs = << <<level, message>> >>],
     out  |-> Ok(None)]

FakeIO_log(self, level, message) ==
    [self |-> [self EXCEPT !.logs = Append(self.logs, <<level, message>>)],
     out  |-> Ok(None)]

-----------------------------------------------------------------------------
(* TracingIO over a FakeIO base context *)

TracingIO_init(base_ctx) == [base_ctx |-> base_ctx, trace |-> <<>>]

\* The delegated call raised: the exception leaves the method before append.
Propagate(self, r) == [self |-> [self EXCEPT !.base_ctx = r.self], out |-> r.out]

\* The delegated call returned: self.trace.append(record), then the return.
Record(self, r, record, out) ==
    [self |-> [base_ctx |-> r.self, trace |-> Append(self.trace, record)], out |-> out]

\* Mutant: the record is appended in a finally block, also when the
\* delegated call raised.
TracingIO_read_file_RecordsFailure(self, path) ==
    LET r == FakeIO_read_file(self.base_ctx, path) IN
    IF ~r.out.ok
    THEN [self |-> [base_ctx |-> r.self,
                    trace    |-> Append(self.trace, <<"read_file", [path |-> path], None>>)],
          out  |-> r.out]
    ELSE Record(self, r, <<"read_file", [path |-> path], r.out.value>>, Ok(r.out.value))

TracingIO_read_file(self, path) ==
    LET r == FakeIO_read_file(self.base_ctx, path) IN
    IF ~r.out.ok THEN Propagate(self, r)
    ELSE Record(self, r, <<"read_file", [path |-> path], r.out.value>>, Ok(r.out.value))

\* Mutant: the record holds the payload itself.
TracingIO_write_file_RawContent(self, path, content) ==
    LET r == FakeIO_write_file(self.base_ctx, path, content) IN
    IF ~r.out.ok THEN Propagate(self, r)
    ELSE Record(self, r, <<"write_file", [path |-> path, content |-> content], None>>,
                Ok(None))

TracingIO_write_file(self, path, content) ==
    LET r == FakeIO_write_file(self.base_ctx, path, content) IN
    IF ~r.out.ok THEN Propagate(self, r)
    ELSE Record(self, r,
                <<"write_file", [path |-> path, content_size |-> Len(content)], None>>,
                Ok(None))

\* Mutant: the backend's error is caught and None returned.
TracingIO_http_get_Swallows(self, url, kwargs) ==
    LET r == FakeIO_http_get(self.base_ctx, url, kwargs) IN
    IF ~r.out.ok THEN [self |-> [self EXCEPT !.base_ctx = r.self], out |-> Ok(None)]
    ELSE Record(self, r, <<"http_get", DictMerge([url |-> url], kwargs), r.out.value>>,
                Ok(r.out.value))

TracingIO_http_get(self, url, kwargs) ==
    LET r == FakeIO_http_get(self.base_ctx, url, kwargs) IN
    IF ~r.out.ok THEN Propagate(self, r)
    ELSE Record(self, r, <<"http_get", DictMerge([url |-> url], kwargs), r.out.value>>,
                Ok(r.out.value))

TracingIO_http_post(self, url, data, kwargs) ==
    LET r == FakeIO_http_post(self.base_ctx, url, data, kwargs) IN
    IF ~r.out.ok THEN Propagate(self, r)
    ELSE Record(self, r,
                <<"http_post", DictMerge([url |-> url, data |-> data], kwargs), r.out.value>>,
                Ok(r.out.value))

TracingIO_execute_command(self, cmd) ==
    LET r == FakeIO_execute_command(self.base_ctx, cmd) IN
    IF ~r.out.ok THEN Propagate(self, r)
    ELSE Record(self, r, <<"execute_command", [cmd |-> cmd], r.out.value>>, Ok(r.out.value))

\* Mutant: a record equal to one already in the trace is not appended.
TracingIO_log_Dedup(self, level, message) ==
    LET r      == FakeIO_log(self.base_ctx, level, message)
        record == <<"log", [level |-> level, message |-> message], None>>
    IN  IF \E i \in 1..Len(self.trace) : self.trace[i] = record
        THEN [self |-> [self EXCEPT !.base_ctx = r.self], out |-> Ok(None)]
        ELSE Record(self, r, record, Ok(None))

TracingIO_log(self, level, message) ==
    LET r == FakeIO_log(self.base_ctx, level, message) IN
    IF ~r.out.ok THEN Propagate(self, r)
    ELSE Record(self, r, <<"log", [level |-> level, message |-> message], None>>, Ok(None))

TracingIO_get_trace(self) == self.trace

-----------------------------------------------------------------------------
(* RealIO: the filesystem and the logging module it acts on *)

\* Where the platform makes a write_file fail, and how many bytes of content
\* had reached the file by then.
Faults(content) ==
    {[at |-> "none", written |-> 0], [at |-> "open", written |-> 0]}
        \cup {[at |-> "write", written |-> n] : n \in 0..Len(content)}

\* with open(path, "rb") as f: return f.read()
RealIO_read_file(fs, path) ==
    IF path \notin DOMAIN fs.files
    THEN [os |-> fs, out |-> Raise("FileNotFoundError", path)]
    ELSE IF path \in fs.unreadable
    THEN [os |-> fs, out |-> Raise("PermissionError", path)]
    ELSE [os |-> fs, out |-> Ok(fs.files[path])]

\* with open(path, "wb") as f: f.write(content)
\* open(path, "wb") creates the file or truncates it to length zero before
\* any byte of content is written.
RealIO_write_file(fs, path, content, fault) ==
    IF path \in fs.unwritable
    THEN [os |-> fs, out |-> Raise("PermissionError", path)]
    ELSE IF fault.at = "open"
    THEN [os |-> fs, out |-> Raise("OSError", path)]
    ELSE IF fault.at = "write"
    THEN [os  |-> [fs EXCEPT !.files = DictSet(fs.files, path,
                                                SubSeq(content, 1, fault.written))],
          out |-> Raise("OSError", path)]
    ELSE [os |-> [fs EXCEPT !.files = DictSet(fs.files, path, content)], out |-> Ok(None)]

\* level.lower(), on the level strings the caller passes
Lower(level) ==
    CASE level = "INFO"  -> "info"
      [] level = "Error" -> "error"
      [] OTHER           -> level

\* The attributes of the logging module that log a message, with the level
\* each logs at.
LoggingFuncs ==
    [debug |-> "DEBUG", info |-> "INFO", warning |-> "WARNING", warn |-> "WARNING",
     error |-> "ERROR", exception |-> "ERROR", critical |-> "CRITICAL", fatal |-> "CRITICAL"]

\* logging._nameToLevel
NameToLevel == {"CRITICAL", "FATAL", "ERROR", "WARN", "WARNING", "INFO", "DEBUG", "NOTSET"}

\* Attributes of the logging module that are not callable.
LoggingObjects == {"root", "os", "sys"}

\* logging_func = getattr(logging, level.lower()); logging_func(message)
RealIO_log(sink, level, message) ==
    LET name == Lower(level) IN
    IF name \in DOMAIN LoggingFuncs
    THEN [logging |-> [sink EXCEPT !.records = Append(@, <<LoggingFuncs[name], message>>)],
          out     |-> Ok(None)]
    ELSE IF name = "disable"
    THEN IF message \in NameToLevel
         THEN [logging |-> [sink EXCEPT !.disable = message], out |-> Ok(None)]
         ELSE [logging |-> sink, out |-> Raise("ValueError", "Unknown level: " \o Repr(StrData(message)))]
    ELSE IF name = "shutdown"
    THEN IF message = ""
         THEN [logging |-> sink, out |-> Ok(None)]
         ELSE [logging |-> sink, out |-> Raise("TypeError", "'str' object is not callable")]
    ELSE IF name \in LoggingObjects
    THEN [logging |-> sink, out |-> Raise("TypeError", "object is not callable")]
    ELSE [logging |-> sink,
          out     |-> Raise("AttributeError", "module 'logging' has no attribute " \o Repr(StrData(name)))]

-----------------------------------------------------------------------------
(* The caller's inputs *)

Paths == {"/t.txt", "out.txt"}

Contents == {<<100>>, <<111, 107>>}

Urls == {"u", "v"}

Datas == {StrData("a"), IntData("1")}

KwargsSet == {EmptyDict, [timeout |-> 5]}

Cmds == {<<"ls", "-la">>, <<"ls -la">>, <<"ls">>}

Levels == {"info", "error"}

Messages == {"m"}

\* The fixture sets a FakeIO is constructed from.
Fixtures ==
    { [file_contents   |-> [p \in {"/t.txt"} |-> <<100>>],
       http_responses  |-> [k \in {"u", "u:'a'"} |->
                               IF k = "u" THEN HttpResponse(200, "ok", None)
                               ELSE HttpResponse(404, "no", None)],
       command_results |-> [c \in {"ls -la"} |-> CommandResult(0, "f", "")]],
      [file_contents   |-> None,
       http_responses  |-> [k \in {"v:1"} |-> HttpResponse(200, "ok", [h \in {"a"} |-> "b"])],
       command_results |-> None],
      [file_contents   |-> None,
       http_responses  |-> None,
       command_results |-> None] }

-----------------------------------------------------------------------------
(* Spec: the same call goes through tracing_ctx and, directly, to fake_ctx *)

\* One call as the caller saw it: out through TracingIO, direct on the FakeIO.
Called(op, args, t, d) ==
    /\ Len(calls) < MaxCalls
    /\ tracing_ctx' = t.self
    /\ fake_ctx' = d.self
    /\ calls' = Append(calls, [op |-> op, args |-> args, out |-> t.out, direct |-> d.out])
    /\ UNCHANGED <<constructed, real_vars>>

Call_read_file ==
    \E path \in Paths :
        Called("read_file", [path |-> path],
               TracingIO_read_file(tracing_ctx, path),
               FakeIO_read_file(fake_ctx, path))

Call_write_file ==
    \E path \in Paths, content \in Contents :
        Called("write_file", [path |-> path, content |-> content],
               TracingIO_write_file(tracing_ctx, path, content),
               FakeIO_write_file(fake_ctx, path, content))

Call_http_get ==
    \E url \in Urls, kwargs \in KwargsSet :
        Called("http_get", [url |-> url, kwargs |-> kwargs],
               TracingIO_http_get(tracing_ctx, url, kwargs),
               FakeIO_http_get(fake_ctx, url, kwargs))

Call_http_post ==
    \E url \in Urls, data \in Datas, kwargs \in KwargsSet :
        Called("http_post", [url |-> url, data |-> data, kwargs |-> kwargs],
               TracingIO_http_post(tracing_ctx, url, data, kwargs),
               FakeIO_http_post(fake_ctx, url, data, kwargs))

Call_execute_command ==
    \E cmd \in Cmds :
        Called("execute_command", [cmd |-> cmd],
               TracingIO_execute_command(tracing_ctx, cmd),
               FakeIO_execute_command(fake_ctx, cmd))

Call_log ==
    \E level \in Levels, message \in Messages :
        Called("log", [level |-> level, message |-> message],
               TracingIO_log(tracing_ctx, level, message),
               FakeIO_log(fake_ctx, level, message))

LoggingInit == [records |-> <<>>, disable |-> "NOTSET"]

RealIdle ==
    /\ os = [files |-> EmptyDict, unreadable |-> {}, unwritable |-> {}]
    /\ logging = LoggingInit
    /\ real_calls = <<>>

Init ==
    /\ \E f \in Fixtures :
        LET fake == FakeIO_init(f.file_contents, f.http_responses, f.command_results) IN
        /\ fake_ctx = fake
        /\ tracing_ctx = TracingIO_init(fake)
        /\ constructed = fake
    /\ calls = <<>>
    /\ RealIdle

Next ==
    \/ Call_read_file
    \/ Call_write_file
    \/ Call_http_get
    \/ Call_http_post
    \/ Call_execute_command
    \/ Call_log

Spec == Init /\ [][Next]_vars

-----------------------------------------------------------------------------
(* Properties of TracingIO and FakeIO, checked under Spec *)

Last(s) == s[Len(s)]

Trace == TracingIO_get_trace(tracing_ctx)

\* A step of Spec in which the caller made one more call.
Stepped == Len(calls') = Len(calls) + 1

\* The calls so far that returned through TracingIO without raising.
Completed == SelectSeq(calls, LAMBDA c : c.out.ok)

\* The call c made on the FakeIO self.
FakeIO_call(self, c) ==
    CASE c.op = "read_file"       -> FakeIO_read_file(self, c.args.path)
      [] c.op = "write_file"      -> FakeIO_write_file(self, c.args.path, c.args.content)
      [] c.op = "http_get"        -> FakeIO_http_get(self, c.args.url, c.args.kwargs)
      [] c.op = "http_post"       -> FakeIO_http_post(self, c.args.url, c.args.data, c.args.kwargs)
      [] c.op = "execute_command" -> FakeIO_execute_command(self, c.args.cmd)
      [] c.op = "log"             -> FakeIO_log(self, c.args.level, c.args.message)

\* C1: after each call the trace is as long as the number of calls that
\* returned without raising, and its i-th record names the i-th such call.
C1_TraceIsCompletedCalls ==
    /\ Len(Trace) = Len(Completed)
    /\ \A i \in 1..Len(Completed) : Trace[i][1] = Completed[i].op

\* A failed call, later completed calls, and the same call completed twice.
C1_Witness ==
    /\ \E i, j \in 1..Len(calls) : i < j /\ ~calls[i].out.ok /\ calls[j].out.ok
    /\ \E i, j \in 1..Len(Completed) :
          i < j /\ Completed[i].op = Completed[j].op /\ Completed[i].args = Completed[j].args

\* C2: a call whose delegated backend call fails hands the caller the
\* backend's error and leaves the trace as it was; a read_file of a path
\* absent from file_contents fails with FileNotFoundError.
C2_FailedCallLeavesTrace ==
    [][(Stepped /\ ~Last(calls').out.ok) =>
          LET c == Last(calls') IN
          /\ c.out = FakeIO_call(tracing_ctx.base_ctx, c).out
          /\ tracing_ctx'.trace = tracing_ctx.trace
          /\ (c.op = "read_file" => c.out.exc = "FileNotFoundError")]_vars

\* A read_file of an absent path has just failed on a non-empty trace.
C2_Witness ==
    /\ Len(calls) > 0
    /\ Last(calls).op = "read_file"
    /\ Last(calls).args.path \notin DOMAIN tracing_ctx.base_ctx.file_contents
    /\ ~Last(calls).out.ok
    /\ Len(Trace) > 0

\* C3: http_post returns the response under url + ":" + repr(data) when that
\* is a fixture key, else the response under url when url is a key, else
\* fails with a ValueError naming url and data.
C3_HttpPostTwoTier ==
    \A i \in 1..Len(calls) :
        calls[i].op = "http_post" =>
            LET url  == calls[i].args.url
                data == calls[i].args.data
                key  == url \o ":" \o Repr(data)
                hr   == fake_ctx.http_responses
            IN  calls[i].direct =
                    IF key \in DOMAIN hr THEN Ok(hr[key])
                    ELSE IF url \in DOMAIN hr THEN Ok(hr[url])
                    ELSE Raise("ValueError",
                               "No fake response for POST " \o url \o " with " \o Str(data))

\* All three tiers taken in one run, the composite key winning over the
\* bare url that is also a key.
C3_Witness ==
    /\ {"u", "u:'a'"} \subseteq DOMAIN fake_ctx.http_responses
    /\ \E i \in 1..Len(calls) :
          /\ calls[i].op = "http_post"
          /\ calls[i].args.url = "u" /\ calls[i].args.data = StrData("a")
          /\ calls[i].direct = Ok(fake_ctx.http_responses["u:'a'"])
          /\ calls[i].direct # Ok(fake_ctx.http_responses["u"])
    /\ \E i \in 1..Len(calls) :
          /\ calls[i].op = "http_post"
          /\ calls[i].args.url = "u" /\ calls[i].args.data = IntData("1")
          /\ calls[i].direct = Ok(fake_ctx.http_responses["u"])
    /\ \E i \in 1..Len(calls) :
          /\ calls[i].op = "http_post"
          /\ calls[i].args.url = "v"
          /\ ~calls[i].direct.ok

\* C4: read_file(p) on a FakeIO succeeds exactly when p was a key of
\* file_contents at construction and then returns the constructed value,
\* whatever has been written.
C4_ReadsIgnoreWrites ==
    \A i \in 1..Len(calls) :
        calls[i].op = "read_file" =>
            LET path == calls[i].args.path
                fc   == constructed.file_contents
            IN  IF path \in DOMAIN fc
                THEN calls[i].direct = Ok(fc[path])
                ELSE ~calls[i].direct.ok /\ calls[i].direct.exc = "FileNotFoundError"

\* A path is written and then read: the read of an unseeded path fails, the
\* read of a seeded path returns the fixture and not what was written.
C4_Witness ==
    \E i, j \in 1..Len(calls) :
        /\ i < j
        /\ calls[i].op = "write_file" /\ calls[j].op = "read_file"
        /\ calls[i].args.path = calls[j].args.path
        /\ calls[j].direct # Ok(calls[i].args.content)
        /\ calls[j].args.path \in DOMAIN fake_ctx.written_files

IsPrefix(s, t) == Len(s) <= Len(t) /\ SubSeq(t, 1, Len(s)) = s

\* C5: the three fixtures of a FakeIO stay as constructed, written_files
\* never loses a key, and logs only grows at its end, a log call appending
\* exactly (level, message).
C5_FixturesFrozenStateGrows ==
    /\ [](/\ fake_ctx.file_contents = constructed.file_contents
          /\ fake_ctx.http_responses = constructed.http_responses
          /\ fake_ctx.command_results = constructed.command_results)
    /\ [][/\ DOMAIN fake_ctx.written_files \subseteq DOMAIN fake_ctx'.written_files
          /\ IsPrefix(fake_ctx.logs, fake_ctx'.logs)
          /\ (Stepped /\ Last(calls').op = "log" =>
                 fake_ctx'.logs = Append(fake_ctx.logs, <<Last(calls').args.level,
                                                          Last(calls').args.message>>))]_vars

\* A log entry, a written file and a failed call over seeded fixtures.
C5_Witness ==
    /\ Len(fake_ctx.logs) >= 1
    /\ DOMAIN fake_ctx.written_files # {}
    /\ \E i \in 1..Len(calls) : ~calls[i].direct.ok
    /\ DOMAIN constructed.file_contents # {}

\* C6: write_file on a FakeIO never fails and leaves written_files[path] ==
\* content, the other keys as they were.
C6_WriteFileStores ==
    [][(Stepped /\ Last(calls').op = "write_file") =>
          LET c  == Last(calls')
              wf == fake_ctx.written_files
          IN  /\ c.direct.ok
              /\ DOMAIN fake_ctx'.written_files = DOMAIN wf \cup {c.args.path}
              /\ fake_ctx'.written_files[c.args.path] = c.args.content
              /\ \A q \in DOMAIN wf \ {c.args.path} : fake_ctx'.written_files[q] = wf[q]]_vars

\* A second write to a path has replaced the first, another key kept.
C6_Witness ==
    /\ Len(calls) = 3
    /\ calls[1].op = "write_file" /\ calls[2].op = "write_file" /\ calls[3].op = "write_file"
    /\ calls[1].args.path # calls[2].args.path
    /\ calls[3].args.path = calls[2].args.path
    /\ calls[3].args.content # calls[2].args.content
    /\ fake_ctx.written_files[calls[3].args.path] = calls[3].args.content
    /\ fake_ctx.written_files[calls[1].args.path] = calls[1].args.content

\* The record TracingIO keeps of the completed call c that returned value.
ExpectedRecord(c, value) ==
    CASE c.op = "read_file"  -> <<"read_file", [path |-> c.args.path], value>>
      [] c.op = "write_file" ->
            <<"write_file", [path |-> c.args.path, content_size |-> Len(c.args.content)], None>>
      [] c.op = "http_get"   -> <<"http_get", DictMerge([url |-> c.args.url], c.args.kwargs), value>>
      [] c.op = "http_post"  ->
            <<"http_post", DictMerge([url |-> c.args.url, data |-> c.args.data], c.args.kwargs),
              value>>
      [] c.op = "execute_command" -> <<"execute_command", [cmd |-> c.args.cmd], value>>
      [] c.op = "log" ->
            <<"log", [level |-> c.args.level, message |-> c.args.message], None>>

\* C9: each completed call adds one record with its arguments and the value
\* the wrapped backend returned; a write_file record holds content_size, the
\* byte length of content, instead of content, and None; a log record None.
C9_RecordContents ==
    [][(Stepped /\ Last(calls').out.ok) =>
          LET c == Last(calls') IN
          /\ tracing_ctx'.trace =
                Append(tracing_ctx.trace,
                       ExpectedRecord(c, FakeIO_call(tracing_ctx.base_ctx, c).out.value))
          /\ c.out.value = FakeIO_call(tracing_ctx.base_ctx, c).out.value]_vars

\* Scenario C: read, write, log over file_contents = {"/t.txt": b"d"}.
C9_Witness ==
    /\ Len(calls) = 3
    /\ calls[1].op = "read_file" /\ calls[2].op = "write_file" /\ calls[3].op = "log"
    /\ calls[2].args.content = <<111, 107>>
    /\ Trace = << <<"read_file", [path |-> "/t.txt"], <<100>> >>,
                  <<"write_file", [path |-> "out.txt", content_size |-> 2], None>>,
                  <<"log", [level |-> "info", message |-> "m"], None>> >>

\* C10: call by call the caller gets from TracingIO(FakeIO(F)) what a
\* FakeIO(F) of its own returns or raises, and the wrapped FakeIO is in the
\* state of the unwrapped one.
C10_TracingIsTransparent ==
    /\ \A i \in 1..Len(calls) : calls[i].out = calls[i].direct
    /\ tracing_ctx.base_ctx.written_files = fake_ctx.written_files
    /\ tracing_ctx.base_ctx.logs = fake_ctx.logs
    /\ tracing_ctx.base_ctx = fake_ctx

\* A failed call, a write and a log have gone through both.
C10_Witness ==
    /\ \E i \in 1..Len(calls) : ~calls[i].out.ok /\ calls[i].op = "http_get"
    /\ \E i \in 1..Len(calls) : calls[i].op = "write_file"
    /\ \E i \in 1..Len(calls) : calls[i].op = "log"
    /\ Len(fake_ctx.logs) = 1

-----------------------------------------------------------------------------
(* SpecReal: the caller drives a RealIO *)

RealContents == {<<111, 107>>}

RealLevels == {"INFO", "error", "disable", "shutdown", "root", "trace"}

RealMessages == {"CRITICAL", ""}

\* The filesystems a run starts from.
Filesystems ==
    { [files |-> [p \in {"/t.txt"} |-> <<100>>], unreadable |-> {}, unwritable |-> {}],
      [files |-> [p \in {"/t.txt"} |-> <<100>>], unreadable |-> {"/t.txt"},
       unwritable |-> {"out.txt"}] }

RealCalled(op, args, out) ==
    /\ Len(real_calls) < MaxCalls
    /\ real_calls' = Append(real_calls, [op |-> op, args |-> args, out |-> out])
    /\ UNCHANGED fake_vars

Real_read_file ==
    \E path \in Paths :
        LET r == RealIO_read_file(os, path) IN
        /\ RealCalled("read_file", [path |-> path], r.out)
        /\ os' = r.os
        /\ UNCHANGED logging

Real_write_file ==
    \E path \in Paths, content \in RealContents :
        \E fault \in Faults(content) :
            LET r == RealIO_write_file(os, path, content, fault) IN
            /\ RealCalled("write_file", [path |-> path, content |-> content], r.out)
            /\ os' = r.os
            /\ UNCHANGED logging

Real_log ==
    \E level \in RealLevels, message \in RealMessages :
        LET r == RealIO_log(logging, level, message) IN
        /\ RealCalled("log", [level |-> level, message |-> message], r.out)
        /\ logging' = r.logging
        /\ UNCHANGED os

FakeIdle ==
    /\ fake_ctx = FakeIO_init(None, None, None)
    /\ tracing_ctx = TracingIO_init(FakeIO_init(None, None, None))
    /\ constructed = FakeIO_init(None, None, None)
    /\ calls = <<>>

InitReal ==
    /\ os \in Filesystems
    /\ logging = LoggingInit
    /\ real_calls = <<>>
    /\ FakeIdle

NextReal ==
    \/ Real_read_file
    \/ Real_write_file
    \/ Real_log

SpecReal == InitReal /\ [][NextReal]_vars

-----------------------------------------------------------------------------
(* Properties of RealIO, checked under SpecReal *)

RealStepped == Len(real_calls') = Len(real_calls) + 1

\* C7: a RealIO.write_file that fails leaves the file at path holding what
\* it held before the call, neither truncated nor a prefix of content.
C7_FailedWriteLeavesFile ==
    [][(RealStepped /\ Last(real_calls').op = "write_file" /\ ~Last(real_calls').out.ok) =>
          LET path == Last(real_calls').args.path IN
          /\ path \in DOMAIN os'.files <=> path \in DOMAIN os.files
          /\ path \in DOMAIN os.files => os'.files[path] = os.files[path]]_vars

\* The levels the logging module logs a message at, under every name it
\* offers for them.
RecognizedLevels == DOMAIN LoggingFuncs

\* What the code raises for a name the logging module does not have.
ConfigurationError == {"AttributeError"}

\* C8: RealIO.log at a recognized level hands the message to the logging
\* module at that level; at any other level it fails with a
\* ConfigurationError and does nothing else to the logging module.
C8_LogRejectsUnrecognizedLevel ==
    [][(RealStepped /\ Last(real_calls').op = "log") =>
          LET c    == Last(real_calls')
              name == Lower(c.args.level)
          IN  IF name \in RecognizedLevels
              THEN /\ c.out.ok
                   /\ logging' = [logging EXCEPT !.records =
                                     Append(@, <<LoggingFuncs[name], c.args.message>>)]
              ELSE /\ ~c.out.ok
                   /\ c.out.exc \in ConfigurationError
                   /\ logging' = logging]_vars

====
